---- MODULE Spec2Model ----
(***************************************************************************)
(* A model of the B2B_Product HTTP service: the chat router (chat.py), the *)
(* uploader router (uploader.py), the recommender router (recommender.py)  *)
(* and the stand-alone search helper (google_search.py), as app.py mounts  *)
(* them.  Text is modelled as a sequence of atoms (words or                *)
(* path fragments), so that string concatenation is sequence               *)
(* concatenation and a key or a prompt is built the way the f-strings      *)
(* build it.                                                               *)
(***************************************************************************)
EXTENDS Integers, Sequences, FiniteSets, TLC

VARIABLES
    client,        \* chat.py, recommender.py: module-level OpenAI client ("ok") or None
    s3_client,     \* chat.py, recommender.py: module-level boto3 client ("ok") or None
    uploader_s3_client,  \* uploader.py: module-level boto3 client ("ok"), or
                         \* "raised": boto3.client raised while app.py imported uploader
    google_creds,  \* GOOGLE_API_KEY and GOOGLE_CSE_ID are both set
    store,         \* the S3 bucket: key -> body, for the keys that exist
    req            \* per request slot: the handler's locals and its position

vars == <<client, s3_client, uploader_s3_client, google_creds, store, req>>

\* ------------------------------------------------------------------ bounds

\* Longest history a chat request carries.
MaxHist == 2
\* Most files one multipart request carries.
MaxFiles == 2

\* ------------------------------------------------------------- input sets

Reqs == {"r1", "r2"}
\* Requests are served one at a time in Spec.
Serial == {"r1"}

SeqsUpTo(S, n) == UNION {[1..k -> S] : k \in 0..n}

\* Turns a caller may put in the history.  A caller may mark a turn pinned
\* (the leading system prompt); the request schema is an untyped list.
TurnA == [role |-> "system", content |-> <<"You", "are">>, pinned |-> TRUE]
TurnB == [role |-> "user", content |-> <<"older", "question">>, pinned |-> FALSE]
HistoryTurns == {TurnA, TurnB}
Histories == SeqsUpTo(HistoryTurns, MaxHist)

\* Messages: one that matches no keyword, one that matches "gold price" only
\* case-insensitively, one that is long.
Messages ==
    { <<"hello">>,
      <<"GOLD", "price">>,
      <<"What", "is", "today's", "gold", "price", "?">> }

\* File names: stem and extension are atoms, so endswith(".txt") reads the
\* last atom; " " is a name that is blank after strip().
FileNames == { <<"report", ".csv">>, <<"base", ".csv">>, <<" ">> }
FileSet == {[filename |-> n, body |-> "data"] : n \in FileNames}
\* File(...) is required: a request carries at least one file.
FileLists == SeqsUpTo(FileSet, MaxFiles) \ {<<>>}

\* What a caller uploads as a prompt: a text file, and a file that is none.
PromptFiles ==
    { [filename |-> <<"notes", ".txt">>, body |-> "custom prompt\n"],
      [filename |-> <<"report", ".csv">>, body |-> "data"] }

\* The file_name path parameter of the two DELETE routes.
DeleteNames == FileNames \cup { <<"prompt", ".txt">> }

Customers == { <<"acme">> }

\* recommender.py 56-62: a Product is a name and an industry; a request holds
\* 1..50 of them.  The industries: one that matches report.csv in another
\* case, the empty string, and one no file stands for; the names: one that
\* is a row of the tables and one that is not.
MaxProducts == 2
Products ==
    { [productName |-> <<"Widget">>, industry |-> <<"REPORT">>],
      [productName |-> <<"Widget">>, industry |-> <<>>],
      [productName |-> <<"Widget">>, industry |-> <<"Retail">>],
      [productName |-> <<"Sprocket">>, industry |-> <<"Report">>] }
ProductLists == SeqsUpTo(Products, MaxProducts) \ { <<>> }

\* The history form field of POST /chat/with-files is a JSON string: a list
\* of turns (here "[]" or a two-turn list), text that is not JSON, or JSON
\* that is not a list ("{}").
HistoryStrings ==
    {[json |-> "list", value |-> h] : h \in {<<>>, <<TurnA, TurnB>>}}
    \cup {[json |-> "invalid", value |-> <<>>], [json |-> "object", value |-> <<>>]}

\* What the search HTTP call can do when it is made.
SearchOutcomes == {"ok", "empty", "network_error", "bad_status"}

\* ------------------------------------------------------------- google_search

NotConfigured == <<"Google Search API credentials not configured.">>
NoResults == <<"No relevant information found from Google Search.">>
Snippets == <<"title\nsnippet\nlink">>

\* chat.py google_search: every path returns text.
google_search(creds, outcome) ==
    IF ~creds THEN NotConfigured
    ELSE CASE outcome = "ok" -> Snippets
           [] outcome = "empty" -> NoResults
           [] OTHER -> <<"Error fetching search results: ", outcome>>

\* google_search.py google_search: raises on missing credentials and on a
\* failed request; an empty item list joins to the empty string.
google_search_module(creds, outcome) ==
    IF ~creds THEN [raised |-> "ValueError", text |-> <<>>]
    ELSE CASE outcome = "ok" -> [raised |-> "none", text |-> Snippets]
           [] outcome = "empty" -> [raised |-> "none", text |-> <<>>]
           [] OTHER -> [raised |-> "RuntimeError", text |-> <<>>]

\* ------------------------------------------------------------ conversation

SystemPrefix == "Use the following real-time information to answer user questions:\n"

SearchTurn(search_results) ==
    [role |-> "system", content |-> <<SystemPrefix>> \o search_results]

UserTurn(content) == [role |-> "user", content |-> content]

\* The trigger classifier of the specification: case-insensitive containment
\* of a configured keyword.  chat.py holds no keyword list and never calls it.
Keywords == { <<"gold", "price">> }

Lower(w) ==
    CASE w = "GOLD" -> "gold"
      [] w = "What" -> "what"
      [] OTHER -> w

needs_augmentation(message) ==
    \E kw \in Keywords :
        \E k \in 0..(Len(message) - Len(kw)) :
            \A j \in 1..Len(kw) : Lower(message[k + j]) = kw[j]

\* A handler that searched only on a keyword would build this.
BuildMessages_Gated(history, search_results, message) ==
    IF needs_augmentation(message)
    THEN history \o <<SearchTurn(search_results), UserTurn(message)>>
    ELSE history \o <<UserTurn(message)>>

\* A handler that started from a fresh list would build this.
BuildMessages_NewList(history, search_results, message) ==
    <<SearchTurn(search_results), UserTurn(message)>>

\* chat.py 110-116: messages = request.history or []; two appends.  A
\* non-empty history is the request's own list, appended to in place; the
\* record keeps the history as received beside the list built.
BuildMessages(history, search_results, message) ==
    history \o <<SearchTurn(search_results), UserTurn(message)>>

\* A step that evicted the oldest turn whatever the cost would give this.
CompletionMessages_DropOldest(messages) ==
    IF messages = <<>> THEN <<>> ELSE Tail(messages)

\* chat.py 119-124 / 195-200: the list is handed to the API as built.
CompletionMessages(messages) == messages

\* chat.py 161-164: json.loads(history), [] when it is not JSON.
json_loads(history) ==
    CASE history.json = "list" -> [type |-> "list", value |-> history.value]
      [] history.json = "invalid" -> [type |-> "list", value |-> <<>>]
      [] OTHER -> [type |-> "dict", value |-> <<>>]

RECURSIVE Join(_, _)
\* sep.join(parts), parts a sequence of texts.
Join(parts, sep) ==
    IF parts = <<>> THEN <<>>
    ELSE IF Len(parts) = 1 THEN parts[1]
    ELSE parts[1] \o <<sep>> \o Join(Tail(parts), sep)

\* chat.py 186-188: the user turn's content names the files uploaded.
UserContent(message, file_references) ==
    IF file_references # <<>>
    THEN message \o <<"\n\nFiles uploaded:\n">> \o Join(file_references, "\n")
    ELSE message

\* chat.py 190-193: messages = parsed_history; one append.
BuildMessagesWithFiles(parsed_history, user_content) ==
    parsed_history \o <<UserTurn(user_content)>>

\* -------------------------------------------------------------------- store

\* file.filename and file.filename.strip()
Blank(name) == \A k \in DOMAIN name : name[k] = " "

\* str.startswith
IsPrefix(a, b) == Len(a) <= Len(b) /\ a = SubSeq(b, 1, Len(a))

\* "a in b" of two texts
IsSubSeq(a, b) ==
    \E k \in 0..(Len(b) - Len(a)) : SubSeq(b, k + 1, k + Len(a)) = a

\* str.endswith
EndsWith(name, ext) == name # <<>> /\ name[Len(name)] = ext

\* A chat handler that forgot its folder would write this key.
ChatKey_NoFolder(customer_id, file_name) == customer_id \o <<"/">> \o file_name

\* chat.py 168, 175: f"{customer_id}/chat_files/" then f"{chat_folder}{file_name}"
ChatKey(customer_id, file_name) ==
    (customer_id \o <<"/", "chat_files", "/">>) \o file_name

\* uploader.py 41: f"{customer_id}/{file_name}"
UploadKey(customer_id, file_name) == customer_id \o <<"/">> \o file_name

\* uploader.py 75: f"{customer_id}/prompt.txt"
PromptKey(customer_id) == customer_id \o <<"/", "prompt", ".txt">>

\* put_object that succeeded: the key now holds the body.
PutObject(s, key, body) ==
    [k \in DOMAIN s \cup {key} |-> IF k = key THEN body ELSE s[k]]

\* An except clause that rolled the request's puts back would leave this.
StoreOnError_Rollback(s, uploaded) ==
    [k \in DOMAIN s \ {uploaded[n] : n \in DOMAIN uploaded} |-> s[k]]

\* delete_object that succeeded: the key is gone.
DeleteObject(s, key) == [k \in DOMAIN s \ {key} |-> s[k]]

\* What head_object can answer for a key: the object, a ClientError with code
\* 404 when there is none, or another error (403, a network failure).
HeadOutcomes(s, key) ==
    IF key \in DOMAIN s THEN {"found", "error"} ELSE {"404", "error"}

\* A delete handler without its "except HTTPException: raise" would answer this.
HeadErrorStatus_Generic(code) == 500

\* uploader.py 134-141, 154-160 (chat.py 268-275, 287-293): a 404 from the
\* existence check is raised as HTTPException(404) and passes the generic
\* except clause; anything else becomes a 500.
HeadErrorStatus(code) == IF code = "404" THEN 404 ELSE 500

\* uploader.py 138: f"File not found: {file_name} for customer: {customer_id}"
NotFoundDetail(label, file_name, customer_id) ==
    <<label>> \o file_name \o <<" for customer: ">> \o customer_id

\* list_objects_v2 answers the keys under a prefix in UTF-8 binary order;
\* this is that order for the keys the handlers can write for a customer.
ListingOrder(customer_id) ==
    << UploadKey(customer_id, <<" ">>),
       UploadKey(customer_id, <<"base", ".csv">>),
       ChatKey(customer_id, <<"base", ".csv">>),
       ChatKey(customer_id, <<"report", ".csv">>),
       PromptKey(customer_id),
       UploadKey(customer_id, <<"report", ".csv">>) >>

\* recommender.py 172-173: response['Contents'] of list_objects_v2.
list_objects_v2(s, customer_id) ==
    LET prefix == customer_id \o <<"/">>
        Listed(k) == k \in DOMAIN s /\ IsPrefix(prefix, k)
    IN SelectSeq(ListingOrder(customer_id), Listed)

\* recommender.py 178: the keys that end in ".csv".
CsvFiles(contents) ==
    LET IsCsv(k) == EndsWith(k, ".csv")
    IN SelectSeq(contents, IsCsv)

\* os.path.basename: what follows the last "/".
basename(key) ==
    LET slashes == {k \in DOMAIN key : key[k] = "/"}
        last == IF slashes = {} THEN 0
                ELSE CHOOSE k \in slashes : \A j \in slashes : j <= k
    IN SubSeq(key, last + 1, Len(key))

\* str.lower, on the words of the model.
str_lower(w) ==
    CASE w = "REPORT" -> "report"
      [] w = "Report" -> "report"
      [] w = "Retail" -> "retail"
      [] w = "Widget" -> "widget"
      [] w = "Sprocket" -> "sprocket"
      [] OTHER -> w

TextLower(t) == [k \in DOMAIN t |-> str_lower(t[k])]

\* str.capitalize of a lower-case text: the first letter in upper case.
capitalize(t) ==
    IF t = <<>> THEN <<>>
    ELSE <<CASE t[1] = "report" -> "Report"
             [] t[1] = "base" -> "Base"
             [] OTHER -> t[1]>> \o Tail(t)

IsSpace(w) == w \in {" ", "\n"}

RECURSIVE lstrip(_)
lstrip(t) == IF t # <<>> /\ IsSpace(Head(t)) THEN lstrip(Tail(t)) ELSE t

RECURSIVE rstrip(_)
rstrip(t) ==
    IF t # <<>> /\ IsSpace(t[Len(t)]) THEN rstrip(SubSeq(t, 1, Len(t) - 1)) ELSE t

\* str.strip
strip(t) == rstrip(lstrip(t))

\* t.replace(w, ""), w one word.
Remove(t, w) ==
    LET Keep(x) == x # w
    IN SelectSeq(t, Keep)

\* recommender.py 189-190: "base" in os.path.basename(file_key).lower()
IsBaseFile(file_key) ==
    \E k \in DOMAIN basename(file_key) : str_lower(basename(file_key)[k]) = "base"

\* recommender.py 197-200: filename.split('_')[0].capitalize(), then
\* .replace(".csv", "").
IndustryName(file_key) ==
    LET filename == TextLower(basename(file_key))
        cuts == {k \in DOMAIN filename : filename[k] = "_"}
        first == IF cuts = {} THEN filename
                 ELSE SubSeq(filename, 1, (CHOOSE k \in cuts : \A j \in cuts : k <= j) - 1)
    IN Remove(capitalize(first), ".csv")

\* pd.read_csv of an object's body: the rows' first column.
read_csv(body) ==
    IF body = "data" THEN << <<"Widget">>, <<"Gadget", "Pro">> >> ELSE <<>>

\* obj['Body'].read().decode('utf-8') of an object's body.
decode(body) ==
    IF body = "custom prompt\n" THEN <<"custom", " ", "prompt", "\n">>
    ELSE <<body>>

\* recommender.py 92-99: the row of the base table for a product name, exact
\* after strip and lower, else the first row that contains the name; <<>>
\* when there is none.
BaseMatch(base_df, name) ==
    LET n == TextLower(strip(name))
        Exact(row) == TextLower(strip(row)) = n
        Partial(row) == IsSubSeq(n, TextLower(strip(row)))
        exact_match == SelectSeq(base_df, Exact)
        partial_match == SelectSeq(base_df, Partial)
    IN IF exact_match # <<>> THEN <<exact_match[1]>>
       ELSE IF partial_match # <<>> THEN <<partial_match[1]>>
       ELSE <<>>

\* recommender.py 108-117: the row of the industry table whose key equals the
\* industry in lower case and that contains the name; <<>> when none.
IndustryMatch(industry_dfs, name, industry) ==
    LET n == TextLower(strip(name))
        Has(row) == IsSubSeq(n, TextLower(row))
        keys == {k \in DOMAIN industry_dfs :
                    /\ TextLower(k) = TextLower(industry)
                    /\ SelectSeq(industry_dfs[k], Has) # <<>>}
    IN IF keys = {} THEN <<>>
       ELSE <<SelectSeq(industry_dfs[CHOOSE k \in keys : TRUE], Has)[1]>>

\* recommender.py 123-142: one example of the prompt.
Example(product, base_row, industry_row) ==
    <<"\nProduct: ">> \o product.productName \o <<"\nIndustry: ">>
        \o product.industry \o <<"\n\nBase:\n">> \o base_row
        \o <<"\nIndustry Variant:\n">> \o industry_row

RECURSIVE Examples(_, _, _)
\* recommender.py 83-142: the examples of the products that matched a base
\* row and an industry row, in request order.
Examples(base_df, industry_dfs, products) ==
    IF products = <<>> THEN <<>>
    ELSE LET product == Head(products)
             b == BaseMatch(base_df, product.productName)
             m == IndustryMatch(industry_dfs, product.productName, product.industry)
             rest == Examples(base_df, industry_dfs, Tail(products))
         IN IF b = <<>> \/ m = <<>> THEN rest
            ELSE <<Example(product, b[1], m[1])>> \o rest

\* recommender.py 81-144
format_sample_data_for_prompt(base_df, industry_dfs, products) ==
    Join(Examples(base_df, industry_dfs, products), "\n---\n")

\* A check that did not skip the empty industry would read this.
IsRequested_Any(industry) == TRUE

\* recommender.py 240: "if industry and ...": the empty industry is skipped.
IsRequested(industry) == industry # <<>>

\* recommender.py 237-241: the requested industries no table stands for.
missing_industries(industry_dfs, products) ==
    LET Missing(product) ==
            /\ IsRequested(product.industry)
            /\ ~\E ind \in DOMAIN industry_dfs :
                   TextLower(ind) = TextLower(product.industry)
    IN SelectSeq(products, Missing)

\* recommender.py 263-265: the prompt used when prompt.txt cannot be read.
DefaultPrompt ==
    <<"Please analyze the provided product data", "\n",
      "Return your response as a JSON object">>

\* A handler that never looked at prompt.txt would use this.
PromptOrDefault_Builtin(s, key, ok) == DefaultPrompt

\* recommender.py 259-266: the text of prompt.txt, the default prompt when
\* reading it raises.
PromptOrDefault(s, key, ok) == IF ok THEN decode(s[key]) ELSE DefaultPrompt

\* recommender.py 269
FullPrompt(base_prompt, prompt_data) ==
    strip(base_prompt) \o <<"\n\nData:\n">> \o prompt_data


\* raise the 500: the bucket stays as the puts so far left it.
StoreOnError(s, uploaded) == s

\* ----------------------------------------------------------------- requests

Idle ==
    [ pc |-> "idle", kind |-> "none", message |-> <<>>, customer_id |-> <<>>,
      history |-> <<>>, parsed_history |-> [type |-> "list", value |-> <<>>],
      files |-> <<>>, file_name |-> <<>>, products |-> <<>>, i |-> 0,
      messages |-> <<>>,
      search_results |-> <<>>, file_references |-> <<>>, uploaded |-> <<>>,
      status |-> 0, detail |-> "", response |-> <<>>, calls |-> <<>> ]

\* raise HTTPException(status_code, detail) / return a body with 200.
Respond(q, status, detail, response) ==
    [q EXCEPT !.pc = "done", !.status = status, !.detail = detail,
              !.response = response]

Log(q, call) == [q EXCEPT !.calls = Append(@, call)]

\* app.py 6-8: uploader is imported first.  uploader.py 15-20 builds its client
\* outside any try block, so an exception of boto3.client leaves the import
\* of app, and the process never serves a request.
Serving == uploader_s3_client = "ok"

Init ==
    /\ client \in {"ok", "None"}
    /\ s3_client \in {"ok", "None"}
    /\ uploader_s3_client \in {"ok", "raised"}
    /\ google_creds \in BOOLEAN
    /\ store = [k \in {} |-> "data"]
    /\ req = [r \in Reqs |-> Idle]

\* chat.py 88-103: POST /chat/, up to the first await.
chat_endpoint(r) ==
    /\ Serving
    /\ req[r].pc = "idle"
    /\ \E message \in Messages, history \in Histories :
         LET q == [Idle EXCEPT !.kind = "chat", !.message = message,
                               !.history = history]
         IN req' = [req EXCEPT ![r] =
                IF client = "None"
                THEN Respond(q, 500, "OpenAI client not initialized", <<>>)
                ELSE [q EXCEPT !.pc = "search"]]
    /\ UNCHANGED <<client, s3_client, uploader_s3_client, google_creds, store>>

\* chat.py 107: search_results = await google_search(request.message).
chat_search(r) ==
    /\ req[r].pc = "search"
    /\ \E outcome \in SearchOutcomes :
         LET o == IF google_creds THEN outcome ELSE "no_request"
             q == Log(req[r], [op |-> "google_search", outcome |-> o])
         IN req' = [req EXCEPT ![r] =
                [q EXCEPT !.pc = "complete",
                          !.search_results = google_search(google_creds, outcome)]]
    /\ UNCHANGED <<client, s3_client, uploader_s3_client, google_creds, store>>

\* A handler that kept the conversation in a module-level list would read
\* the turns another request left there.
RequestHistory_Shared(r) ==
    LET others == {o \in Reqs \ {r} : req[o].messages # <<>>}
    IN IF others = {} THEN req[r].history
       ELSE req[CHOOSE o \in others : TRUE].messages

\* chat.py 48-51, 110: request.history, the list parsed from this request's
\* body; no other request holds it.
RequestHistory(r) == req[r].history

\* chat.py 110-131: build the list, call the completion API, answer.
chat_complete(r) ==
    /\ req[r].pc = "complete"
    /\ req[r].kind = "chat"
    /\ \E ok \in BOOLEAN :
         LET messages == BuildMessages(RequestHistory(r), req[r].search_results,
                                       req[r].message)
             q == Log([req[r] EXCEPT !.messages = messages],
                      [op |-> "completion",
                       messages |-> CompletionMessages(messages), ok |-> ok])
         IN req' = [req EXCEPT ![r] =
                IF ok
                THEN Respond(q, 200, "",
                             [response |-> "reply", uploaded_files |-> "None"])
                ELSE Respond(q, 500, "Error with OpenAI API", <<>>)]
    /\ UNCHANGED <<client, s3_client, uploader_s3_client, google_creds, store>>

\* chat.py 133-168: POST /chat/with-files, up to the upload loop.
chat_with_files_endpoint(r) ==
    /\ Serving
    /\ req[r].pc = "idle"
    /\ \E message \in Messages, customer_id \in Customers,
          history \in HistoryStrings, files \in FileLists :
         LET q == [Idle EXCEPT !.kind = "with_files", !.message = message,
                               !.customer_id = customer_id,
                               !.history = history, !.files = files]
         IN req' = [req EXCEPT ![r] =
                IF client = "None"
                THEN Respond(q, 500, "OpenAI client not initialized", <<>>)
                ELSE IF s3_client = "None"
                THEN Respond(q, 500, "S3 client not initialized. Cannot upload files.", <<>>)
                ELSE [q EXCEPT !.pc = "wf_file", !.i = 1,
                               !.parsed_history = json_loads(history)]]
    /\ UNCHANGED <<client, s3_client, uploader_s3_client, google_creds, store>>

\* chat.py 170-184: one iteration of the upload loop.  A put that raises
\* leaves the loop for the handler's except clause.
wf_file(r) ==
    /\ req[r].pc = "wf_file"
    /\ req[r].i <= Len(req[r].files)
    /\ LET q == req[r]
           file == q.files[q.i]
           s3_key == ChatKey(q.customer_id, file.filename)
       IN IF Blank(file.filename)
          THEN /\ req' = [req EXCEPT ![r] = [q EXCEPT !.i = @ + 1]]
               /\ UNCHANGED store
          ELSE \E ok \in BOOLEAN :
                 LET c == Log(q, [op |-> "put_object", key |-> s3_key, ok |-> ok])
                 IN IF ok
                    THEN /\ store' = PutObject(store, s3_key, file.body)
                         /\ req' = [req EXCEPT ![r] =
                                [c EXCEPT !.i = @ + 1,
                                          !.file_references =
                                              Append(@, <<"File uploaded: ">> \o file.filename),
                                          !.uploaded = Append(@, s3_key)]]
                    ELSE /\ req' = [req EXCEPT ![r] =
                                Respond(c, 500, "Error with OpenAI API", <<>>)]
                         /\ store' = StoreOnError(store, q.uploaded)
    /\ UNCHANGED <<client, s3_client, uploader_s3_client, google_creds>>

\* chat.py 186-207: after the loop.  Appending to a parsed history that is
\* not a list raises before the completion call.
wf_complete(r) ==
    /\ req[r].pc = "wf_file"
    /\ req[r].i > Len(req[r].files)
    /\ LET q == req[r]
           user_content == UserContent(q.message, q.file_references)
       IN IF q.parsed_history.type # "list"
          THEN /\ req' = [req EXCEPT ![r] =
                      Respond(q, 500, "Error with OpenAI API", <<>>)]
               /\ store' = StoreOnError(store, q.uploaded)
          ELSE \E ok \in BOOLEAN :
                 LET messages == BuildMessagesWithFiles(q.parsed_history.value,
                                                        user_content)
                     c == Log([q EXCEPT !.messages = messages],
                              [op |-> "completion",
                               messages |-> CompletionMessages(messages),
                               ok |-> ok])
                 IN /\ req' = [req EXCEPT ![r] =
                           IF ok
                           THEN Respond(c, 200, "",
                                        [response |-> "reply",
                                         uploaded_files |-> q.uploaded])
                           ELSE Respond(c, 500, "Error with OpenAI API", <<>>)]
                    /\ store' = IF ok THEN store
                                ELSE StoreOnError(store, q.uploaded)
    /\ UNCHANGED <<client, s3_client, uploader_s3_client, google_creds>>

\* uploader.py 22-34: POST /upload/files/.  The uploader's own s3_client is
\* built at import without a guard, so it exists whenever the process runs.
upload_files(r) ==
    /\ Serving
    /\ req[r].pc = "idle"
    /\ \E customer_id \in Customers, files \in FileLists :
         req' = [req EXCEPT ![r] =
             [Idle EXCEPT !.kind = "upload_files", !.customer_id = customer_id,
                          !.files = files, !.pc = "up_file", !.i = 1]]
    /\ UNCHANGED <<client, s3_client, uploader_s3_client, google_creds, store>>

\* uploader.py 36-49: one iteration of the loop; no file is skipped.
up_file(r) ==
    /\ req[r].pc = "up_file"
    /\ req[r].i <= Len(req[r].files)
    /\ LET q == req[r]
           file == q.files[q.i]
           s3_key == UploadKey(q.customer_id, file.filename)
       IN \E ok \in BOOLEAN :
            LET c == Log(q, [op |-> "put_object", key |-> s3_key, ok |-> ok])
            IN IF ok
               THEN /\ store' = PutObject(store, s3_key, file.body)
                    /\ req' = [req EXCEPT ![r] =
                           [c EXCEPT !.i = @ + 1, !.uploaded = Append(@, s3_key)]]
               ELSE /\ req' = [req EXCEPT ![r] =
                           Respond(c, 500, "Error uploading files", <<>>)]
                    /\ store' = StoreOnError(store, q.uploaded)
    /\ UNCHANGED <<client, s3_client, uploader_s3_client, google_creds>>

\* uploader.py 51-55: the loop is over.
up_return(r) ==
    /\ req[r].pc = "up_file"
    /\ req[r].i > Len(req[r].files)
    /\ req' = [req EXCEPT ![r] =
           Respond(req[r], 200, "Files uploaded successfully",
                   [customer_id |-> req[r].customer_id,
                    uploaded_files |-> req[r].uploaded])]
    /\ UNCHANGED <<client, s3_client, uploader_s3_client, google_creds, store>>

\* uploader.py 59-91: POST /upload/prompt/, the whole handler.
upload_prompt(r) ==
    /\ Serving
    /\ req[r].pc = "idle"
    /\ \E customer_id \in Customers, prompt_file \in PromptFiles :
         LET q == [Idle EXCEPT !.kind = "upload_prompt",
                               !.customer_id = customer_id,
                               !.files = <<prompt_file>>]
             s3_key == PromptKey(customer_id)
         IN IF ~EndsWith(prompt_file.filename, ".txt")
            THEN /\ req' = [req EXCEPT ![r] =
                        Respond(q, 400, "Only text files with .txt extension are allowed for prompts", <<>>)]
                 /\ UNCHANGED store
            ELSE \E ok \in BOOLEAN :
                   LET c == Log(q, [op |-> "put_object", key |-> s3_key, ok |-> ok])
                   IN IF ok
                      THEN /\ store' = PutObject(store, s3_key, prompt_file.body)
                           /\ req' = [req EXCEPT ![r] =
                                  Respond([c EXCEPT !.uploaded = <<s3_key>>], 200,
                                          "Prompt file uploaded successfully",
                                          [customer_id |-> customer_id,
                                           file_path |-> s3_key])]
                      ELSE /\ req' = [req EXCEPT ![r] =
                                  Respond(c, 500, "Error uploading prompt file", <<>>)]
                           /\ UNCHANGED store
    /\ UNCHANGED <<client, s3_client, uploader_s3_client, google_creds>>

\* uploader.py 127-160 / chat.py 263-293: the body both DELETE handlers
\* share: the existence check, then the delete.  q holds the request, s3_key
\* the key, label the handler's own wording.
DeleteByKey(r, q, s3_key, label, error_label, deleted_message) ==
    \E head \in HeadOutcomes(store, s3_key) :
        LET h == Log(q, [op |-> "head_object", key |-> s3_key, outcome |-> head])
        IN IF head # "found"
           THEN /\ req' = [req EXCEPT ![r] =
                       Respond(h, HeadErrorStatus(head),
                               IF head = "404"
                               THEN NotFoundDetail(label, q.file_name, q.customer_id)
                               ELSE <<error_label>>,
                               <<>>)]
                /\ UNCHANGED store
           ELSE \E ok \in BOOLEAN :
                  LET d == Log(h, [op |-> "delete_object", key |-> s3_key, ok |-> ok])
                  IN IF ok
                     THEN /\ store' = DeleteObject(store, s3_key)
                          /\ req' = [req EXCEPT ![r] =
                                 Respond(d, 200, <<deleted_message>>,
                                         [customer_id |-> q.customer_id,
                                          deleted_file |-> s3_key])]
                     ELSE /\ req' = [req EXCEPT ![r] =
                                 Respond(d, 500, <<error_label>>, <<>>)]
                          /\ UNCHANGED store

\* uploader.py 119-160: DELETE /upload/files/{customer_id}/{file_name}.
delete_customer_file(r) ==
    /\ Serving
    /\ req[r].pc = "idle"
    /\ \E customer_id \in Customers, file_name \in DeleteNames :
         DeleteByKey(r, [Idle EXCEPT !.kind = "delete_file",
                                     !.customer_id = customer_id,
                                     !.file_name = file_name],
                     UploadKey(customer_id, file_name),
                     "File not found: ", "Error deleting file: ",
                     "File deleted successfully")
    /\ UNCHANGED <<client, s3_client, uploader_s3_client, google_creds>>

\* chat.py 249-293: DELETE /chat/files/{customer_id}/{file_name}.
delete_chat_file(r) ==
    /\ Serving
    /\ req[r].pc = "idle"
    /\ \E customer_id \in Customers, file_name \in DeleteNames :
         LET q == [Idle EXCEPT !.kind = "delete_chat",
                               !.customer_id = customer_id,
                               !.file_name = file_name]
         IN IF s3_client = "None"
            THEN /\ req' = [req EXCEPT ![r] =
                        Respond(q, 500, <<"S3 client not initialized. Cannot delete file.">>, <<>>)]
                 /\ UNCHANGED store
            ELSE DeleteByKey(r, q, ChatKey(customer_id, file_name),
                             "Chat file not found: ", "Error deleting chat file: ",
                             "Chat file deleted successfully")
    /\ UNCHANGED <<client, s3_client, uploader_s3_client, google_creds>>

NonBase(files) ==
    LET Other(k) == ~IsBaseFile(k)
    IN SelectSeq(files, Other)

\* recommender.py 187-201: the industry names the first loop stores.
FirstLoopNames(files) ==
    {IndustryName(NonBase(files)[k]) : k \in DOMAIN NonBase(files)} \ { <<>> }

\* recommender.py 187-224: the keys read with get_object, in order: every
\* CSV once; the first CSV again as the base table when no name holds "base";
\* the non-base CSVs again when the first loop stored no industry.
PlannedReads(files) ==
    files
      \o (IF \E k \in DOMAIN files : IsBaseFile(files[k]) THEN <<>> ELSE <<files[1]>>)
      \o (IF FirstLoopNames(files) = {} THEN NonBase(files) ELSE <<>>)

\* recommender.py 190, 203-208: the base table: the last file named "base",
\* else the first CSV.  files is not empty here, so the 400 of lines 210-214
\* has no input.
BaseTable(s, files) ==
    LET bases == {k \in DOMAIN files : IsBaseFile(files[k])}
    IN IF bases = {} THEN read_csv(s[files[1]])
       ELSE read_csv(s[files[CHOOSE k \in bases : \A j \in bases : j <= k]])

\* recommender.py 193-201, 216-224: industry name -> table; a later file of
\* the same name replaces an earlier one.
IndustryTables(s, files) ==
    LET nonbase == NonBase(files)
        names == IF FirstLoopNames(files) # {} THEN FirstLoopNames(files)
                 ELSE {IndustryName(nonbase[k]) : k \in DOMAIN nonbase}
        LastOf(n) == CHOOSE k \in DOMAIN nonbase :
                        /\ IndustryName(nonbase[k]) = n
                        /\ \A j \in DOMAIN nonbase :
                              IndustryName(nonbase[j]) = n => j <= k
    IN [n \in names |-> read_csv(s[nonbase[LastOf(n)]])]

RECURSIVE LogReads_Retry(_, _, _, _)
\* A reader that tried a failed get_object once more would log this.
LogReads_Retry(q, reads, k, fail_at) ==
    IF k > Len(reads) \/ (fail_at # 0 /\ k > fail_at) THEN q
    ELSE LET c == [op |-> "get_object", key |-> reads[k], ok |-> k # fail_at]
         IN LogReads_Retry(IF k = fail_at THEN Log(Log(q, c), c) ELSE Log(q, c),
                           reads, k + 1, fail_at)

RECURSIVE LogReads(_, _, _, _)
\* The get_object calls of a run: reads[1..] in order, the one at fail_at
\* raising and ending the run (fail_at = 0: none raises).
LogReads(q, reads, k, fail_at) ==
    IF k > Len(reads) \/ (fail_at # 0 /\ k > fail_at) THEN q
    ELSE LogReads(Log(q, [op |-> "get_object", key |-> reads[k], ok |-> k # fail_at]),
                  reads, k + 1, fail_at)

\* recommender.py 258-307: prompt.txt or the default, the completion call,
\* the answer.
RecommendComplete(r, g, industry_dfs, prompt_data) ==
    LET prompt_file_key == PromptKey(g.customer_id)
    IN \E prompt_ok \in (IF prompt_file_key \in DOMAIN store THEN BOOLEAN ELSE {FALSE}),
          outcome \in {"json", "text", "malformed", "error"} :
         LET p == Log(g, [op |-> "get_object", key |-> prompt_file_key, ok |-> prompt_ok])
             base_prompt == PromptOrDefault(store, prompt_file_key, prompt_ok)
             full_prompt == FullPrompt(base_prompt, prompt_data)
             c == Log([p EXCEPT !.messages = <<UserTurn(full_prompt)>>],
                      [op |-> "completion", messages |-> <<UserTurn(full_prompt)>>,
                       ok |-> outcome # "error"])
         IN req' = [req EXCEPT ![r] =
                CASE outcome = "error" -> Respond(c, 500, "completion error", <<>>)
                  [] outcome = "malformed" -> Respond(c, 422, "Error processing response", <<>>)
                  [] OTHER -> Respond(c, 200, "",
                                 [message |-> "Processed successfully",
                                  availableIndustries |-> DOMAIN industry_dfs,
                                  gptResponse |-> outcome])]

\* recommender.py 183-256: read the tables, validate the request.
RecommendLoad(r, l, files) ==
    \E fail_at \in 0..Len(PlannedReads(files)) :
        LET g == LogReads(l, PlannedReads(files), 1, fail_at)
            base_df == BaseTable(store, files)
            industry_dfs == IndustryTables(store, files)
            prompt_data == format_sample_data_for_prompt(base_df, industry_dfs, l.products)
        IN IF fail_at # 0
           THEN req' = [req EXCEPT ![r] = Respond(g, 500, "get_object error", <<>>)]
           ELSE IF DOMAIN industry_dfs = {}
           THEN req' = [req EXCEPT ![r] = Respond(g, 400, "No industry files found", <<>>)]
           ELSE IF missing_industries(industry_dfs, l.products) # <<>>
           THEN req' = [req EXCEPT ![r] =
                    Respond(g, 400, "Some requested industries are not available", <<>>)]
           ELSE IF prompt_data = <<>>
           THEN req' = [req EXCEPT ![r] =
                    Respond(g, 400, "Could not match any products", <<>>)]
           ELSE RecommendComplete(r, g, industry_dfs, prompt_data)

\* recommender.py 146-312: POST /recommend/products.  The handler awaits
\* nothing, so it runs from its guards to its answer in one step.  Its client
\* and s3 are built like chat.py's, from the same environment.
recommend_products(r) ==
    /\ Serving
    /\ req[r].pc = "idle"
    /\ \E customer_id \in Customers, products \in ProductLists :
         LET q == [Idle EXCEPT !.kind = "recommend",
                               !.customer_id = customer_id,
                               !.products = products]
         IN IF client = "None"
            THEN req' = [req EXCEPT ![r] =
                     Respond(q, 500, "OpenAI client not initialized", <<>>)]
            ELSE IF s3_client = "None"
            THEN req' = [req EXCEPT ![r] =
                     Respond(q, 500, "S3 client not initialized", <<>>)]
            ELSE \E list_ok \in BOOLEAN :
                   LET l == Log(q, [op |-> "list_objects_v2",
                                    prefix |-> customer_id \o <<"/">>, ok |-> list_ok])
                       contents == list_objects_v2(store, customer_id)
                   IN IF ~list_ok
                      THEN req' = [req EXCEPT ![r] =
                               Respond(l, 500, "list_objects_v2 error", <<>>)]
                      ELSE IF contents = <<>>
                      THEN req' = [req EXCEPT ![r] =
                               Respond(l, 404, "No files found for customer_id", <<>>)]
                      ELSE IF CsvFiles(contents) = <<>>
                      THEN req' = [req EXCEPT ![r] =
                               Respond(l, 404, "No CSV files found for customer_id", <<>>)]
                      ELSE RecommendLoad(r, l, CsvFiles(contents))
    /\ UNCHANGED <<client, s3_client, uploader_s3_client, google_creds, store>>

\* google_search.py 10-37: the stand-alone helper, called as a library
\* function; the "response" is what the call gives its caller.
google_search_py(r) ==
    /\ Serving
    /\ req[r].pc = "idle"
    /\ \E query \in Messages, outcome \in SearchOutcomes :
         LET o == IF google_creds THEN outcome ELSE "no_request"
             q == Log([Idle EXCEPT !.kind = "search_py", !.message = query],
                      [op |-> "google_search", outcome |-> o])
             res == google_search_module(google_creds, outcome)
         IN req' = [req EXCEPT ![r] =
                Respond(q, 0, res.raised, res.text)]
    /\ UNCHANGED <<client, s3_client, uploader_s3_client, google_creds, store>>

\* The response has been sent; the slot serves the next request.
Return(r) ==
    /\ req[r].pc = "done"
    /\ req' = [req EXCEPT ![r] = Idle]
    /\ UNCHANGED <<client, s3_client, uploader_s3_client, google_creds, store>>

Next ==
    \E r \in Serial :
        \/ chat_endpoint(r)
        \/ chat_search(r)
        \/ chat_complete(r)
        \/ chat_with_files_endpoint(r)
        \/ wf_file(r)
        \/ wf_complete(r)
        \/ upload_files(r)
        \/ up_file(r)
        \/ up_return(r)
        \/ upload_prompt(r)
        \/ delete_customer_file(r)
        \/ delete_chat_file(r)
        \/ recommend_products(r)
        \/ google_search_py(r)
        \/ Return(r)

Spec == Init /\ [][Next]_vars

\* Concurrent chat requests: the event loop runs one handler up to its next
\* await (the search, chat.py 107), then any other.
InitChat ==
    /\ Init
    /\ Serving
    /\ s3_client = "ok"

NextChat ==
    \E r \in Reqs :
        \/ chat_endpoint(r)
        \/ chat_search(r)
        \/ chat_complete(r)
        \/ Return(r)

SpecChat == InitChat /\ [][NextChat]_vars

\* ------------------------------------------------- the budget of the spec

\* The specification's budget (its worked example: 25 tokens, overhead 0)
\* and a deterministic counter, five tokens a word.  chat.py holds neither.
MaxPromptTokens == 25
PerTurnOverhead == 0
TokenCounter(content) == 5 * Len(content)

RECURSIVE Cost(_)
Cost(conv) ==
    IF conv = <<>> THEN 0
    ELSE TokenCounter(Head(conv).content) + PerTurnOverhead + Cost(Tail(conv))

\* A turn the caller marked pinned; the turns the handlers append carry no mark.
Pinned(turn) == "pinned" \in DOMAIN turn /\ turn.pinned

\* The current request's user turn, the last one, is pinned by convention.
PinnedAt(conv, k) == Pinned(conv[k]) \/ k = Len(conv)

\* ---------------------------------------------------- reading a request

IsCompletion(c) == c.op = "completion"
IsPut(c) == c.op = "put_object"
IsSearch(c) == c.op = "google_search"

CompletionCalls(r) == SelectSeq(req[r].calls, IsCompletion)
Puts(r) == SelectSeq(req[r].calls, IsPut)
Searches(r) == SelectSeq(req[r].calls, IsSearch)

\* The request has handed a conversation to the completion API.
HasSent(r) == CompletionCalls(r) # <<>>
Sent(r) == CompletionCalls(r)[1].messages

IsChat(r) == req[r].kind \in {"chat", "with_files"}

\* The history the request came with, as a list of turns.
InputHistory(r) ==
    IF req[r].kind = "chat" THEN req[r].history ELSE req[r].parsed_history.value

Count(conv, turn) == Cardinality({k \in DOMAIN conv : conv[k] = turn})

\* conv without the turns at the positions in E, order kept.
RECURSIVE Without(_, _, _)
Without(conv, E, k) ==
    IF k > Len(conv) THEN <<>>
    ELSE (IF k \in E THEN <<>> ELSE <<conv[k]>>) \o Without(conv, E, k + 1)

\* out is conv after a FIFO eviction: the evicted positions hold no pinned
\* turn and, with a position, every older non-pinned one.
IsFifoTrim(conv, out) ==
    \E E \in SUBSET DOMAIN conv :
        /\ out = Without(conv, E, 1)
        /\ \A j \in E : /\ ~Pinned(conv[j])
                        /\ \A k \in 1..(j - 1) : ~Pinned(conv[k]) => k \in E

\* ------------------------------------------------------------------ claims

\* C1 (as claimed): every conversation handed to the completion API costs at
\* most max_prompt_tokens, or holds pinned turns only and BudgetExceeded is
\* reported to the caller.
C1_BudgetRespectedOrReported ==
    \A r \in Reqs :
        (IsChat(r) /\ HasSent(r)) =>
            \/ Cost(Sent(r)) <= MaxPromptTokens
            \/ /\ \A k \in DOMAIN Sent(r) : PinnedAt(Sent(r), k)
               /\ req[r].detail = "BudgetExceeded"

\* The conversation of the specification's eviction example: four turns of
\* ten tokens, the first pinned.
ExampleConversation ==
    <<TurnA, TurnB, SearchTurn(NoResults), UserTurn(<<"GOLD", "price">>)>>

\* C2 (as claimed): the conversation sent is a FIFO trim of the one built, and
\* [A(pinned), B, C, D] at ten tokens a turn against a budget of 25 is sent
\* as exactly [A, D].
C2_FifoEviction ==
    \A r \in Reqs :
        (IsChat(r) /\ HasSent(r)) =>
            /\ IsFifoTrim(req[r].messages, Sent(r))
            /\ req[r].messages = ExampleConversation =>
                   Sent(r) = <<TurnA, UserTurn(<<"GOLD", "price">>)>>

\* C3: every pinned turn of the request's history is in the conversation
\* handed to the completion API, as many times as the history holds it.
C3_PinnedTurnsKept ==
    \A r \in Reqs :
        (IsChat(r) /\ HasSent(r)) =>
            \A k \in DOMAIN InputHistory(r) :
                Pinned(InputHistory(r)[k]) =>
                    Count(Sent(r), InputHistory(r)[k])
                        >= Count(InputHistory(r), InputHistory(r)[k])

\* C3 witness: a conversation over the budget whose history holds a pinned
\* turn was handed to the completion API.
C3_Witness ==
    \E r \in Reqs :
        /\ IsChat(r) /\ HasSent(r)
        /\ Cost(req[r].messages) > MaxPromptTokens
        /\ \E k \in DOMAIN InputHistory(r) : Pinned(InputHistory(r)[k])

\* The user turn the handler builds from the request's message.
NewUserTurn(r) ==
    IF req[r].kind = "chat" THEN UserTurn(req[r].message)
    ELSE UserTurn(UserContent(req[r].message, req[r].file_references))

\* C4 (as claimed): the conversation sent ends with the request's user turn,
\* and when that turn alone is over the budget the request ends with
\* BudgetExceeded.
C4_UserTurnLastOrBudgetExceeded ==
    \A r \in Reqs :
        (IsChat(r) /\ HasSent(r)) =>
            /\ Sent(r)[Len(Sent(r))] = NewUserTurn(r)
            /\ Cost(<<NewUserTurn(r)>>) > MaxPromptTokens =>
                   req[r].detail = "BudgetExceeded"

\* C5: a conversation that costs at most max_prompt_tokens is handed to the
\* completion API as it was built, turn for turn.
C5_IdentityUnderBudget ==
    \A r \in Reqs :
        (IsChat(r) /\ HasSent(r) /\ Cost(req[r].messages) <= MaxPromptTokens) =>
            Sent(r) = req[r].messages

\* C5 witness: a conversation within the budget, with history, was sent.
C5_Witness ==
    \E r \in Reqs :
        /\ IsChat(r) /\ HasSent(r)
        /\ Cost(req[r].messages) <= MaxPromptTokens
        /\ InputHistory(r) # <<>>

SearchFailed(r) ==
    /\ Searches(r) # <<>>
    /\ Searches(r)[1].outcome \in
           {"no_request", "network_error", "bad_status", "empty"}

\* C8 (as claimed): a search that fails returns text instead of raising, in
\* chat.py and in google_search.py alike, and the chat request goes on to the
\* completion call with the user's turn.
C8_SearchFailureReturnsText ==
    \A r \in Reqs :
        (req[r].pc = "done" /\ SearchFailed(r)) =>
            /\ req[r].kind = "search_py" => req[r].detail = "none"
            /\ req[r].kind = "chat" =>
                   /\ HasSent(r)
                   /\ Sent(r)[Len(Sent(r))] = UserTurn(req[r].message)

\* The keys of the files a handler has dealt with so far, in file order; the
\* chat handler skips a file whose name is blank.
RECURSIVE KeysOf(_, _, _)
KeysOf(kind, customer_id, files) ==
    IF files = <<>> THEN <<>>
    ELSE LET name == Head(files).filename
             rest == KeysOf(kind, customer_id, Tail(files))
         IN IF kind = "with_files"
            THEN (IF Blank(name) THEN <<>>
                  ELSE <<customer_id \o <<"/", "chat_files", "/">> \o name>>) \o rest
            ELSE <<customer_id \o <<"/">> \o name>> \o rest

PutKeys(r) == [n \in DOMAIN Puts(r) |-> Puts(r)[n].key]
IsUpload(r) == req[r].kind \in {"upload_files", "with_files"}

\* C9: a multi-file upload is not atomic.  The puts go in file order, one per
\* file, and stop at the first that fails; that request ends with 500 and no
\* further outbound call, the files put before it are still in the store, and
\* nothing is deleted.  The same holds of the chat handler when the
\* completion call fails after every file was put.
C9_UploadNotAtomic ==
    \A r \in Reqs :
        IsUpload(r) =>
            LET puts == Puts(r)
                n == Len(puts)
            IN /\ IsPrefix(PutKeys(r),
                           KeysOf(req[r].kind, req[r].customer_id, req[r].files))
               /\ \A c \in DOMAIN req[r].calls :
                      req[r].calls[c].op \in {"put_object", "completion"}
               /\ \A m \in 1..(n - 1) : puts[m].ok
               /\ (n > 0 /\ ~puts[n].ok) =>
                      /\ req[r].pc = "done" /\ req[r].status = 500
                      /\ req[r].calls[Len(req[r].calls)] = puts[n]
                      /\ \A m \in 1..(n - 1) : puts[m].key \in DOMAIN store
               /\ (HasSent(r) /\ ~CompletionCalls(r)[1].ok) =>
                      /\ req[r].status = 500
                      /\ PutKeys(r) = KeysOf(req[r].kind, req[r].customer_id,
                                             req[r].files)
                      /\ \A m \in 1..n : puts[m].key \in DOMAIN store

\* C9 witness: the second file of a request failed after the first, under
\* another key, was stored.
C9_Witness ==
    \E r \in Reqs :
        /\ IsUpload(r) /\ req[r].pc = "done" /\ req[r].status = 500
        /\ Len(Puts(r)) = 2
        /\ Puts(r)[1].ok /\ ~Puts(r)[2].ok
        /\ Puts(r)[1].key # Puts(r)[2].key
        /\ Puts(r)[1].key \in DOMAIN store

\* The puts of the request that succeeded, in order.
PutOk(c) == c.op = "put_object" /\ c.ok
WrittenKeys(r) ==
    LET w == SelectSeq(req[r].calls, PutOk) IN [n \in DOMAIN w |-> w[n].key]

\* C10: the chat handler writes {customer_id}/chat_files/{filename}, the
\* uploader {customer_id}/{filename}, the prompt uploader
\* {customer_id}/prompt.txt whatever the file is called; a 200 response lists
\* exactly the keys written, in file order, and each of them is in the store.
C10_StorageKeys ==
    \A r \in Reqs :
        /\ IsUpload(r) =>
               /\ IsPrefix(PutKeys(r),
                           KeysOf(req[r].kind, req[r].customer_id, req[r].files))
               /\ req[r].status = 200 =>
                      /\ req[r].response.uploaded_files = WrittenKeys(r)
                      /\ WrittenKeys(r) = KeysOf(req[r].kind, req[r].customer_id,
                                                 req[r].files)
                      /\ \A n \in DOMAIN WrittenKeys(r) :
                             WrittenKeys(r)[n] \in DOMAIN store
        /\ req[r].kind = "upload_prompt" =>
               /\ \A n \in DOMAIN PutKeys(r) :
                      PutKeys(r)[n] = req[r].customer_id \o <<"/", "prompt", ".txt">>
               /\ req[r].status = 200 =>
                      /\ WrittenKeys(r) = <<req[r].response.file_path>>
                      /\ req[r].response.file_path \in DOMAIN store
                      /\ req[r].response.file_path
                             = req[r].customer_id \o <<"/", "prompt", ".txt">>

\* C10 witness: the chat handler answered 200 after writing two files of
\* customer acme, report.csv first, under acme/chat_files/report.csv.
C10_Witness ==
    \E r \in Reqs :
        /\ req[r].kind = "with_files" /\ req[r].status = 200
        /\ Len(req[r].response.uploaded_files) = 2
        /\ req[r].response.uploaded_files[1]
               = <<"acme", "/", "chat_files", "/", "report", ".csv">>
        /\ req[r].response.uploaded_files[2] # req[r].response.uploaded_files[1]

IsDelete(r) == req[r].kind \in {"delete_file", "delete_chat"}

\* The key a delete request is about.
DeleteKey(r) ==
    IF req[r].kind = "delete_chat"
    THEN ChatKey(req[r].customer_id, req[r].file_name)
    ELSE UploadKey(req[r].customer_id, req[r].file_name)

\* What a finished delete request shows: its calls, status and detail agree
\* with the outcome of the existence check.
DeleteAnswered(r) ==
    LET c == req[r].calls
    IN /\ \A k \in 1..Len(c) :
             c[k].op = "delete_object"
                 => /\ k = 2
                    /\ c[1].op = "head_object" /\ c[1].outcome = "found"
                    /\ c[1].key = c[k].key /\ c[k].key = DeleteKey(r)
       /\ (c # <<>> /\ c[1].op = "head_object" /\ c[1].outcome = "404")
             => /\ req[r].status = 404
                /\ Len(c) = 1
                /\ IsSubSeq(req[r].file_name, req[r].detail)
                /\ IsSubSeq(req[r].customer_id, req[r].detail)
       /\ (c # <<>> /\ c[1].op = "head_object" /\ c[1].outcome = "error")
             => req[r].status = 500 /\ Len(c) = 1
       /\ (Len(c) = 2 /\ ~c[2].ok) => req[r].status = 500
       /\ req[r].status = 404 => c[1].outcome = "404"

\* A delete handler that answers 404 or 500 leaves the store as it was, and
\* one that answers 200 removes exactly its key.
DeleteStep ==
    \A r \in Reqs :
        (req[r].pc = "idle" /\ req'[r].pc = "done" /\ req'[r].kind \in {"delete_file", "delete_chat"})
            => IF req'[r].status = 200
               THEN store' = DeleteObject(store, DeleteKey(r)')
               ELSE store' = store

IsRequest(r) == req[r].kind \notin {"none", "search_py"}

\* The outbound call did not succeed.
Failed(c) ==
    CASE c.op = "google_search" -> c.outcome \in {"network_error", "bad_status"}
      [] c.op = "head_object" -> c.outcome # "found"
      [] OTHER -> ~c.ok

\* What an outbound call is aimed at.
Target(c) ==
    CASE c.op \in {"put_object", "get_object", "head_object", "delete_object"} -> c.key
      [] c.op = "list_objects_v2" -> c.prefix
      [] c.op = "completion" -> c.messages
      [] OTHER -> <<>>

IsPromptRead(r, c) ==
    c.op = "get_object" /\ c.key = PromptKey(req[r].customer_id)

\* The failures a handler absorbs: a failed search becomes text of the
\* conversation, a failed read of prompt.txt the default prompt.
Absorbed(r, c) ==
    \/ c.op = "google_search"
    \/ IsPromptRead(r, c)

\* The failed call is the request's last, and the request's answer is an
\* error status.
EndsRequest(r, k) ==
    /\ k = Len(req[r].calls)
    /\ req[r].pc = "done" => req[r].status \in {404, 500}

\* C12 (as claimed): each outbound operation is attempted at most once per
\* target within a request, and a failure of any of them ends the request
\* with one error response and no further outbound call.
C12_OncePerTargetAnyFailureEnds ==
    \A r \in Reqs :
        IsRequest(r) =>
            LET c == req[r].calls
            IN /\ \A i, j \in DOMAIN c :
                     (i < j /\ c[i].op = c[j].op) => Target(c[i]) # Target(c[j])
               /\ \A k \in DOMAIN c : Failed(c[k]) => EndsRequest(r, k)

\* C12 (amended): no retries.  A call that failed is never attempted again in
\* the request; a failed completion, put, list, head, delete or CSV get is the
\* request's last call and the request answers with an error status.  A
\* failed search and a failed read of prompt.txt are absorbed, and the request
\* goes on.  A target is called twice only after the first call succeeded,
\* by a get of recommend_products or a put of a file of the same name.
C12_NoRetries ==
    \A r \in Reqs :
        IsRequest(r) =>
            LET c == req[r].calls
            IN /\ \A i, j \in DOMAIN c :
                     (i < j /\ c[i].op = c[j].op /\ Target(c[i]) = Target(c[j]))
                         => /\ ~Failed(c[i])
                            /\ \/ c[i].op = "get_object" /\ req[r].kind = "recommend"
                               \/ c[i].op = "put_object"
               /\ \A k \in DOMAIN c :
                     (Failed(c[k]) /\ ~Absorbed(r, c[k]))
                         => EndsRequest(r, k) /\ req[r].pc = "done"
               /\ (req[r].pc = "done" /\ req[r].kind = "chat"
                      /\ \E k \in DOMAIN c : c[k].op = "google_search")
                     => HasSent(r)
               /\ (req[r].pc = "done" /\ req[r].kind = "recommend"
                      /\ \E k \in DOMAIN c : IsPromptRead(r, c[k]))
                     => HasSent(r)

\* C12 witness: recommend_products listed the customer's files, read one
\* table and failed on the next; it answered 500 after that call.
C12_Witness ==
    \E r \in Reqs :
        /\ req[r].kind = "recommend" /\ req[r].status = 500
        /\ Len(req[r].calls) = 3
        /\ req[r].calls[2].op = "get_object" /\ req[r].calls[2].ok
        /\ req[r].calls[3].op = "get_object" /\ ~req[r].calls[3].ok

\* C12 witness of the absorbed failures: a chat request whose search failed
\* and a recommend request whose prompt.txt read failed both reached the
\* completion call.
C12_AbsorbedWitness ==
    \E r \in Reqs :
        /\ req[r].kind = "recommend" /\ req[r].status = 200
        /\ \E k \in DOMAIN req[r].calls :
              /\ req[r].calls[k].op = "get_object" /\ ~req[r].calls[k].ok
              /\ req[r].calls[k + 1].op = "completion"

NeedsCompletionClient(r) == req[r].kind \in {"chat", "with_files", "recommend"}
NeedsStoreClient(r) == req[r].kind \in {"with_files", "delete_chat", "recommend"}

\* The part of C13 the guarded modules keep: with chat.py's or
\* recommender.py's client None and the process serving, the endpoints that
\* need it answer 500 without a call.
C13_GuardedClients ==
    \A r \in Reqs :
        (/\ req[r].pc # "idle"
         /\ \/ NeedsCompletionClient(r) /\ client = "None"
            \/ NeedsStoreClient(r) /\ s3_client = "None")
            => req[r].pc = "done" /\ req[r].status = 500 /\ req[r].calls = <<>>

\* C13 (as claimed): a client that failed to initialise degrades only its
\* capability.  Whichever client failed at startup, the process serves; an
\* endpoint that needs the failed client answers 500 before any outbound
\* call.
C13_DegradeNotCrash == Serving /\ C13_GuardedClients

\* The search-results turn a chat request appended.
OwnSearchTurn(r) == SearchTurn(req[r].search_results)

\* C14: concurrent chat requests are independent.  Under any interleaving,
\* the conversation a request sends is its own history, then the turn with
\* its own search results, then its own message, and no turn besides; and no
\* step writes the process-wide configuration.
C14_RequestsIndependent ==
    /\ [](\A r \in Reqs :
            (req[r].kind = "chat" /\ HasSent(r)) =>
                /\ Len(CompletionCalls(r)) = 1
                /\ Sent(r) = req[r].history
                                \o <<OwnSearchTurn(r), UserTurn(req[r].message)>>)
    /\ [][/\ client' = client
          /\ s3_client' = s3_client
          /\ uploader_s3_client' = uploader_s3_client
          /\ google_creds' = google_creds]_vars

\* C14 witness: two chat requests in flight at once with different messages,
\* histories and search results; one has sent its conversation and answered
\* while the other, started before that, is still to send its own.
C14_Witness ==
    \E r, o \in Reqs :
        /\ r # o
        /\ req[r].kind = "chat" /\ req[o].kind = "chat"
        /\ req[r].pc = "done" /\ HasSent(r)
        /\ req[o].pc = "complete"
        /\ req[r].message # req[o].message
        /\ req[r].history # req[o].history /\ req[o].history # <<>>
        /\ req[r].search_results # req[o].search_results

IsRecommend(r) == req[r].kind = "recommend"

\* The CSV keys recommend_products finds for the request's customer.
CsvOf(r) == CsvFiles(list_objects_v2(store, req[r].customer_id))

\* Some call of the request failed, the read of prompt.txt aside.
CallFailed(r) ==
    \E k \in DOMAIN req[r].calls :
        Failed(req[r].calls[k]) /\ ~IsPromptRead(r, req[r].calls[k])

\* The industry is the name of a table, letter case aside.
Available(r, industry) ==
    \E ind \in DOMAIN IndustryTables(store, CsvOf(r)) :
        TextLower(ind) = TextLower(industry)

\* Some product of the request matched a base row and an industry row.
SomeProductMatched(r) ==
    Examples(BaseTable(store, CsvOf(r)), IndustryTables(store, CsvOf(r)),
             req[r].products) # <<>>

\* The answer of a recommend request whose clients exist and whose store
\* calls all succeeded, given which industries it must find: the first
\* validation that fails decides, with its own status; the completion API is
\* called, once, only when all pass.
ValidatedInOrder(r, MustMatch(_)) ==
    LET Answer(status, detail) ==
            /\ req[r].status = status /\ req[r].detail = detail /\ ~HasSent(r)
    IN IF list_objects_v2(store, req[r].customer_id) = <<>>
       THEN Answer(404, "No files found for customer_id")
       ELSE IF CsvOf(r) = <<>>
       THEN Answer(404, "No CSV files found for customer_id")
       ELSE IF DOMAIN IndustryTables(store, CsvOf(r)) = {}
       THEN Answer(400, "No industry files found")
       ELSE IF \E k \in DOMAIN req[r].products :
                  /\ MustMatch(req[r].products[k].industry)
                  /\ ~Available(r, req[r].products[k].industry)
       THEN Answer(400, "Some requested industries are not available")
       ELSE IF ~SomeProductMatched(r)
       THEN Answer(400, "Could not match any products")
       ELSE /\ Len(CompletionCalls(r)) = 1
            /\ req[r].calls[Len(req[r].calls)].op = "completion"
            /\ req[r].status \in {200, 422, 500}

Validated(r) ==
    /\ IsRecommend(r) /\ req[r].pc = "done"
    /\ client # "None" /\ s3_client # "None"
    /\ ~CallFailed(r) \/ HasSent(r)

IsUploadPrompt(r) == req[r].kind = "upload_prompt"

\* The read of prompt.txt of a recommend request that reached the
\* completion call: the call before it.
PromptRead(r) == req[r].calls[Len(req[r].calls) - 1]

\* The prompt a recommend request sent to the completion API.
SentPrompt(r) == Sent(r)[1].content

\* What an answered upload_prompt shows: 400 and no call exactly when the
\* file name does not end in .txt; after 200 the customer's prompt.txt holds
\* the uploaded body.
PromptUploadAnswered(r) ==
    LET file == req[r].files[1]
        key == req[r].customer_id \o <<"/", "prompt", ".txt">>
    IN /\ (req[r].status = 400) = (file.filename[Len(file.filename)] # ".txt")
       /\ req[r].status = 400 => req[r].calls = <<>>
       /\ req[r].status = 200 => key \in DOMAIN store /\ store[key] = file.body

\* What a recommend request that called the completion API shows: its prompt
\* begins with the stored prompt.txt, stripped, when the read succeeded, and
\* with the default prompt when it failed.
PromptUsed(r) ==
    /\ PromptRead(r).op = "get_object"
    /\ PromptRead(r).key = req[r].customer_id \o <<"/", "prompt", ".txt">>
    /\ IF PromptRead(r).ok
       THEN /\ PromptRead(r).key \in DOMAIN store
            /\ store[PromptRead(r).key] = "custom prompt\n"
            /\ IsPrefix(<<"custom", " ", "prompt", "\n\nData:\n">>, SentPrompt(r))
       ELSE IsPrefix(DefaultPrompt \o <<"\n\nData:\n">>, SentPrompt(r))

\* C16: the per-customer prompt.  upload_prompt stores only a file whose name
\* ends in .txt, at {customer}/prompt.txt; otherwise it answers 400, calls
\* nothing and leaves the store as it was.  A later recommend_products builds
\* its prompt from the stored text; when the read of prompt.txt fails, it
\* uses the default prompt and still calls the completion API.
C16_PromptOverride ==
    /\ [](\A r \in Reqs :
            /\ (IsUploadPrompt(r) /\ req[r].pc = "done") => PromptUploadAnswered(r)
            /\ (IsRecommend(r) /\ HasSent(r)) => PromptUsed(r)
            /\ (IsRecommend(r) /\ req[r].pc = "done"
                   /\ \E k \in DOMAIN req[r].calls : IsPromptRead(r, req[r].calls[k]))
                  => HasSent(r))
    /\ [][\A r \in Reqs :
            (req'[r].kind = "upload_prompt" /\ req[r].pc = "idle" /\ req'[r].status # 200)
                => store' = store]_vars

\* C16 witness: after an upload_prompt stored the custom prompt, a
\* recommend request read it and was answered 200 with a prompt that begins
\* with the custom text.
C16_Witness ==
    \E r \in Reqs :
        /\ IsRecommend(r) /\ req[r].status = 200
        /\ PromptRead(r).ok
        /\ SentPrompt(r)[1] = "custom"

\* C16 witness of the fallback: the read of a stored prompt.txt failed and the
\* request was answered 200 with the default prompt.
C16_FallbackWitness ==
    \E r \in Reqs :
        /\ IsRecommend(r) /\ req[r].status = 200
        /\ ~PromptRead(r).ok
        /\ PromptRead(r).key \in DOMAIN store
        /\ SentPrompt(r)[1] = DefaultPrompt[1]

====
